---- MODULE Spec2Model ----
(***************************************************************************)
(* State-machine model of the PATE privacy accountant PATEPyTorch          *)
(* (pate_accountant.py): construction, the per-query decision gn_max and   *)
(* the private release of epsilon, release_epsilon_fixed_order.            *)
(*                                                                         *)
(* Conventions of the model                                                *)
(*  - an optional Python value is a sequence of length <= 1: None is <<>>  *)
(*    and a set value v is <<v>>;                                          *)
(*  - a vote vector is a sequence of per-class counts; a student           *)
(*    prediction vector is the sequence of its numerators over pred_unit,  *)
(*    and threshold_gamma is likewise a numerator over pred_unit;          *)
(*  - labels are 0-based, as torch.argmax returns them;                    *)
(*  - a Gaussian draw is a nondeterministic choice of -sigma, 0 or sigma    *)
(*    around its mean;                                                     *)
(*  - the functions imported from `aliases` are not part of the source     *)
(*    file: the cost functions return any per-order vector of the set      *)
(*    CostVectors, the sensitivity functions return the term built from    *)
(*    their arguments, and all of them raise on a None numeric argument.   *)
(***************************************************************************)
EXTENDS Integers, Sequences, FiniteSets

\* ---------------------------------------------------------------- bounds
\* gn_max is called at most MaxQueries times on one accountant
MaxQueries == 2

\* ------------------------------------------------------ optional values
None == <<>>
Some(v) == <<v>>
Val(x) == x[1]

\* ------------------------------------------------- constructor arguments
n_teachers == 2
sigma_votes == 2
sigma_eps_release == 1
\* log(1 / target_delta), in the integer units of the model's epsilons
log_inv_delta == 6

\* a class probability p is the integer p * pred_unit
pred_unit == 2

basic_mode == 0
confident_mode == 1
interactive_mode == 2

ModeNames == {"basic", "confident", "interactive", "adaptive"}
ThresholdTArgs == {None, Some(1)}
ThresholdGammaArgs == {None, Some(1)}
SigmaThreshArgs == {None, Some(1)}

\* a prefix of the short order grid, arange(2, 50 + 1, 1)
Orders == {2, 3}

VoteVectors == {<<2, 0>>, <<1, 1>>, <<0, 2>>}
\* student predictions (numerators over pred_unit); the last one has one
\* class too many for the vote vectors
PredVectors == {<<2, 0>>, <<1, 1>>, <<1, 1, 0>>}

VARIABLES
    mode_name,          \* the threshold_mode argument given to __init__
    short_list,         \* the short_list_orders argument given to __init__
    grid_pos,           \* the position in self.orders a scan of the grid is at
    constructed,        \* TRUE iff __init__ returned an instance
    threshold_mode,     \* optional: basic_mode, confident_mode, interactive_mode
    threshold_T,        \* optional
    threshold_gamma,    \* optional
    sigma_thresh,       \* optional
    rdp_eps_by_order,   \* [Orders -> Nat]
    votes_log,          \* sequence of <<votes, thresh_votes, released>>
    selected_order,     \* optional
    data_dependent_eps, \* optional
    rdp_to_dp_calls,    \* number of rdp_to_dp invocations so far
    queries,            \* number of gn_max calls so far, failed ones included
    tally,              \* cost additions and completed gn_max calls so far
    call                \* what the last call did and returned

vars == <<mode_name, short_list, grid_pos, tally, constructed, threshold_mode, threshold_T, threshold_gamma, sigma_thresh,
          rdp_eps_by_order, votes_log, selected_order, data_dependent_eps,
          rdp_to_dp_calls, queries, call>>

config == <<mode_name, short_list, constructed, threshold_mode, threshold_T,
           threshold_gamma, sigma_thresh>>

\* ------------------------------------------------------------- helpers
RECURSIVE MaxFrom(_, _)
MaxFrom(v, i) ==
    IF i = Len(v) THEN v[i]
    ELSE LET m == MaxFrom(v, i + 1) IN IF v[i] >= m THEN v[i] ELSE m

\* torch.max of a vector
Max(v) == MaxFrom(v, 1)

\* torch.argmax of a vector: the (0-based) index of the first maximum
ArgMax(v) == (CHOOSE i \in 1..Len(v) :
                 /\ v[i] = Max(v)
                 /\ \A j \in 1..(i - 1) : v[j] < v[i]) - 1

\* element-wise a - b; tensors of different lengths do not broadcast
ShapesAgree(a, b) == Len(a) = Len(b)
VecSub(a, b) == [i \in 1..Len(a) |-> a[i] - b[i]]
VecAdd(a, b) == [i \in 1..Len(a) |-> a[i] + b[i]]

\* the values a draw of pt.normal(mean, sigma) can take around its mean
NoiseSet(sigma) == {0 - sigma, 0, sigma}
NoiseVectors(n, sigma) == [1..n -> NoiseSet(sigma)]

\* the per-order vectors rdp_threshold and rdp_max_vote can return
CostVectors == {[o \in Orders |-> k * o] : k \in {0, 1}}

ZeroCost == [o \in Orders |-> 0]

NoTally == [thresh_added |-> 0, release_added |-> 0, completed |-> 0]

NoCall == [op |-> "init", outcome |-> "none", ret |-> None,
           thresh_calls |-> 0, release_calls |-> 0,
           gate_drawn |-> FALSE, gate_stat |-> 0,
           votes |-> <<>>, preds |-> <<>>,
           thresh_vec |-> <<>>, release_vec |-> <<>>,
           perturb_sigma |-> None, charged_sigma |-> None,
           order_arg |-> None, mean |-> <<>>, sdev |-> <<>>, sample |-> <<>>]

\* ------------------------------------------------------------ order grid
\* Orders are held in thousandths: the order 2.5 is 2500.
ArangeInclusive(start, stop, step) ==
    [i \in 1..((stop - start) \div step + 1) |-> start + (i - 1) * step]

\* np.arange(start, stop, step): the ceil((stop - start) / step) values
\* start, start + step, ... below stop
Arange(start, stop, step) ==
    [i \in 1..((stop - start + step - 1) \div step) |-> start + (i - 1) * step]

\* np.logspace(np.log10(50), np.log10(1000), num=20), to three decimals
ShortLogSpace ==
    <<50000, 58539, 68536, 80241, 93944, 109988, 128772, 150764,
       176511, 206656, 241948, 283268, 331645, 388283, 454594, 532230,
       623124, 729541, 854131, 1000000>>

\* np.logspace(np.log10(100), np.log10(500), num=100), to three decimals
FullLogSpace ==
    <<100000, 101639, 103305, 104998, 106719, 108468, 110246, 112053,
       113889, 115756, 117653, 119581, 121541, 123533, 125558, 127616,
       129707, 131833, 133994, 136190, 138422, 140691, 142997, 145341,
       147723, 150144, 152605, 155106, 157648, 160232, 162858, 165527,
       168240, 170998, 173800, 176649, 179544, 182487, 185478, 188518,
       191607, 194748, 197940, 201184, 204481, 207833, 211239, 214701,
       218220, 221797, 225432, 229127, 232882, 236699, 240578, 244521,
       248529, 252602, 256742, 260950, 265227, 269574, 273993, 278483,
       283048, 287687, 292402, 297194, 302065, 307016, 312048, 317162,
       322361, 327644, 333014, 338472, 344019, 349658, 355389, 361213,
       367134, 373151, 379267, 385483, 391801, 398222, 404749, 411383,
       418126, 424979, 431944, 439023, 446219, 453532, 460966, 468521,
       476200, 484004, 491937, 500000>>

\* np.round of one value: to the nearest integer, halves to the even one
Round(x) ==
    LET q == x \div 1000
        r == x % 1000
    IN  IF r < 500 THEN q * 1000
        ELSE IF r > 500 THEN (q + 1) * 1000
        ELSE IF q % 2 = 0 THEN q * 1000 ELSE (q + 1) * 1000

\* _get_orders(short_list)
get_orders(short) ==
    IF short
    THEN LET g == Arange(2000, 50000 + 1000, 1000) \o ShortLogSpace
         IN  [i \in 1..Len(g) |-> Round(g[i])]
    ELSE Arange(2000, 100000 + 1000, 500) \o FullLogSpace

\* --------------------------------------------------------- construction
\* get_threshold_mode: the assert fails on an unknown name
ModeKnown(name) == name \in {"basic", "confident", "interactive"}

get_threshold_mode_swapped(name) ==
    CASE name = "basic" -> basic_mode
      [] name = "confident" -> interactive_mode
      [] name = "interactive" -> confident_mode

get_threshold_mode(name) ==
    CASE name = "basic" -> basic_mode
      [] name = "confident" -> confident_mode
      [] name = "interactive" -> interactive_mode

\* __init__(..., threshold_mode=name, threshold_t=t, threshold_gamma=g, sigma_thresh=s)
Construct(name, t, g, s) ==
    /\ mode_name = name
    /\ tally = NoTally
    /\ constructed = ModeKnown(name)
    /\ threshold_mode = IF ModeKnown(name) THEN Some(get_threshold_mode(name)) ELSE None
    /\ sigma_thresh = IF ModeKnown(name) THEN s ELSE None
    /\ threshold_T = IF ModeKnown(name) THEN t ELSE None
    /\ threshold_gamma = IF ModeKnown(name) THEN g ELSE None
    /\ rdp_eps_by_order = ZeroCost
    /\ votes_log = <<>>
    /\ selected_order = None
    /\ data_dependent_eps = None
    /\ rdp_to_dp_calls = 0
    /\ queries = 0
    /\ call = NoCall

\* the state after __init__ with the default short_list_orders=True
Init ==
    /\ short_list = TRUE
    /\ grid_pos = 1
    /\ \E name \in ModeNames, t \in ThresholdTArgs, g \in ThresholdGammaArgs,
          s \in SigmaThreshArgs : Construct(name, t, g, s)

\* ---------------------------------------------------------------- gn_max
AddRdpLossNegated(rdp, cost) == [o \in Orders |-> rdp[o] - cost[o]]

AddRdpLossTwice(rdp, cost) == [o \in Orders |-> rdp[o] + 2 * cost[o]]

\* _add_rdp_loss: rdp_eps_by_order += cost
AddRdpLoss(rdp, cost) == [o \in Orders |-> rdp[o] + cost[o]]

\* n_teachers * preds
TeachersTimes(preds) == [i \in 1..Len(preds) |-> (n_teachers * preds[i]) \div pred_unit]

ThreshVotesPlain(votes, preds) == votes

\* thresh_votes = votes - self.n_teachers * preds
ThreshVotes(votes, preds) == VecSub(votes, TeachersTimes(preds))

GatePassedStrict(stat, t) == stat > t

\* pt.max(...) + pt.normal(0., self.sigma_thresh) >= self.threshold_T
GatePassed(stat, t) == stat >= t

StudentConfidentInverted(preds, gamma) == Max(preds) < gamma

\* pt.max(preds) > self.threshold_gamma
StudentConfident(preds, gamma) == Max(preds) > gamma

LogInsertFirst(log, votes, thresh_votes, release_votes) ==
    <<<<votes, thresh_votes, release_votes>>>> \o log

LogAppendReleased(log, votes, thresh_votes, release_votes) ==
    IF release_votes THEN Append(log, <<votes, thresh_votes, release_votes>>) ELSE log

\* self.votes_log.append((votes, thresh_votes, release_votes))
LogAppend(log, votes, thresh_votes, release_votes) ==
    Append(log, <<votes, thresh_votes, release_votes>>)

\* the scale of the noise added to the votes before the argmax
PerturbSigma == sigma_thresh

\* the scale passed to the release-cost function
ChargedSigma == Some(sigma_votes)

\* pt.argmax(votes + pt.normal(pt.ones_like(votes), sigma)): the labels it can
\* return; pt.normal raises a TypeError on a None standard deviation
NoisyArgMax(votes, sigma) ==
    IF sigma = None THEN {None}
    ELSE {Some(ArgMax(VecAdd(votes, [i \in 1..Len(votes) |-> 1 + nz[i]]))) :
             nz \in NoiseVectors(Len(votes), Val(sigma))}

\* lines 96-103: the log append, then the release or the fallback answer;
\* rdp1 is the accumulator and c the call record after the thresholding part
ReleasePart(votes, thresh_votes, release_votes, fallback, rdp1, c) ==
    LET log1 == LogAppend(votes_log, votes, thresh_votes, release_votes) IN
    IF release_votes
    THEN {[rdp |-> AddRdpLoss(rdp1, rc), log |-> log1,
           call |-> [c EXCEPT !.release_calls = 1,
                              !.release_vec = votes,
                              !.charged_sigma = ChargedSigma,
                              !.perturb_sigma = PerturbSigma,
                              !.outcome = IF lab = None THEN "error" ELSE "label",
                              !.ret = lab]] :
             rc \in CostVectors, lab \in NoisyArgMax(votes, PerturbSigma)}
    ELSE {[rdp |-> rdp1, log |-> log1,
           call |-> [c EXCEPT !.outcome = IF fallback = None THEN "none" ELSE "student",
                              !.ret = fallback]]}

\* a call that raised: what it left behind
Raised(rdp1, c) ==
    [rdp |-> rdp1, log |-> votes_log, call |-> [c EXCEPT !.outcome = "error"]]

\* the call record of a gn_max call: its votes, and its preds where the mode
\* reads them (preds is read in interactive mode only)
GnMaxCall(votes, preds) ==
    [NoCall EXCEPT !.op = "gn_max", !.votes = votes,
                   !.preds = IF threshold_mode = Some(interactive_mode)
                             THEN preds ELSE <<>>]

\* lines 80-81
GnMaxBasic(votes, preds) ==
    ReleasePart(votes, votes, TRUE, None, rdp_eps_by_order, GnMaxCall(votes, preds))

\* lines 84-86 and 90-94: the thresholding cost, the gate and, in interactive
\* mode, the student's confident answer
Thresholding(votes, preds, thresh_votes, interactive) ==
    LET c0 == [GnMaxCall(votes, preds) EXCEPT !.thresh_calls = 1] IN
    IF sigma_thresh = None \/ threshold_T = None
    THEN {Raised(rdp_eps_by_order, c0)}
    ELSE UNION {
        LET rdp1 == AddRdpLoss(rdp_eps_by_order, tc)
            stat == Max(thresh_votes) + gn
            c1 == [c0 EXCEPT !.gate_drawn = TRUE, !.gate_stat = stat,
                             !.thresh_vec = thresh_votes]
        IN  IF GatePassed(stat, Val(threshold_T))
            THEN ReleasePart(votes, thresh_votes, TRUE, None, rdp1, c1)
            ELSE IF ~interactive
            THEN ReleasePart(votes, thresh_votes, FALSE, None, rdp1, c1)
            ELSE IF threshold_gamma = None
            THEN {Raised(rdp1, c1)}
            ELSE IF StudentConfident(preds, Val(threshold_gamma))
            THEN ReleasePart(votes, thresh_votes, FALSE, Some(ArgMax(preds)), rdp1, c1)
            ELSE ReleasePart(votes, thresh_votes, FALSE, None, rdp1, c1)
        : tc \in CostVectors, gn \in NoiseSet(Val(sigma_thresh))}

\* lines 83-86
GnMaxConfident(votes, preds) == Thresholding(votes, preds, votes, FALSE)

\* lines 88-94
GnMaxInteractive(votes, preds) ==
    IF ~ShapesAgree(votes, preds)
    THEN {Raised(rdp_eps_by_order, GnMaxCall(votes, preds))}
    ELSE Thresholding(votes, preds, ThreshVotes(votes, preds), TRUE)

GnMaxResults(votes, preds) ==
    CASE threshold_mode = Some(basic_mode) -> GnMaxBasic(votes, preds)
      [] threshold_mode = Some(confident_mode) -> GnMaxConfident(votes, preds)
      [] threshold_mode = Some(interactive_mode) -> GnMaxInteractive(votes, preds)

\* the tally after a gn_max call: a threshold cost was added if the gate was
\* reached, a release cost if the release-cost function was invoked
Tally(t, c) ==
    [thresh_added |-> t.thresh_added + (IF c.gate_drawn THEN 1 ELSE 0),
     release_added |-> t.release_added + c.release_calls,
     completed |-> t.completed + (IF c.outcome = "error" THEN 0 ELSE 1)]

gn_max(votes, preds) ==
    /\ constructed
    /\ queries < MaxQueries
    /\ queries' = queries + 1
    /\ \E r \in GnMaxResults(votes, preds) :
          /\ rdp_eps_by_order' = r.rdp
          /\ votes_log' = r.log
          /\ call' = r.call
          /\ tally' = Tally(tally, r.call)
    /\ UNCHANGED <<config, grid_pos, selected_order, data_dependent_eps, rdp_to_dp_calls>>

\* ------------------------------------------- the functions of `aliases`
\* rdp_to_dp(orders, rdp, delta): the epsilon each order gives
EpsAt(rdp, o) == rdp[o] + (log_inv_delta \div (o - 1))

\* rdp_to_dp: <<eps, order>>, the smallest epsilon and the first order giving it
rdp_to_dp(rdp) ==
    LET best == CHOOSE o \in Orders :
                   /\ \A p \in Orders : EpsAt(rdp, o) <= EpsAt(rdp, p)
                   /\ \A p \in Orders : EpsAt(rdp, p) = EpsAt(rdp, o) => o <= p
    IN  <<EpsAt(rdp, best), best>>

\* local_sensitivity(votes, n_teachers, sigma, order[, threshold]): the
\* contribution, as the term of its arguments
local_sensitivity(vec, n, sigma, order, threshold) ==
    [vec |-> vec, n |-> n, sigma |-> sigma, order |-> order, threshold |-> threshold]

\* local_to_smooth_sens(beta, ls_by_dist_acc)
local_to_smooth_sens(beta, acc) == [beta |-> beta, ls |-> acc]

\* rdp_eps_release(beta, sigma, order)
rdp_eps_release(beta, sigma, order) == [beta |-> beta, sigma |-> sigma, order |-> order]

\* -------------------------------------------- release_epsilon_fixed_order
NeedsRdpToDpAlways(eps) == TRUE

\* _data_dependent_rdp: if self.data_dependent_eps is None
NeedsRdpToDp(eps) == eps = None

\* the order the release step hands to local_sensitivity and rdp_eps_release:
\* the local read at line 140, before _data_dependent_rdp runs
OrderArg(before, after) == before

ProcessedRecordsAll(log) == log

\* the records of the log the loop has processed when it returns (line 161)
ProcessedRecords(log) == SubSeq(log, 1, 1)

RecordTermsUnconditional(rec, order) ==
    <<local_sensitivity(rec[2], n_teachers, sigma_thresh, order, threshold_T),
      local_sensitivity(rec[1], n_teachers, Some(sigma_votes), order, None)>>

\* lines 145-151: what one record adds to ls_by_dist_acc
RecordTerms(rec, order) ==
    (IF threshold_mode # Some(basic_mode)
     THEN <<local_sensitivity(rec[2], n_teachers, sigma_thresh, order, threshold_T)>>
     ELSE <<>>)
    \o
    (IF rec[3]
     THEN <<local_sensitivity(rec[1], n_teachers, Some(sigma_votes), order, None)>>
     ELSE <<>>)

RECURSIVE LsByDistAcc(_, _)
LsByDistAcc(recs, order) ==
    IF recs = <<>> THEN <<>>
    ELSE RecordTerms(Head(recs), order) \o LsByDistAcc(Tail(recs), order)

\* beta = 0.4 / self.selected_order, as <<numerator, denominator>>
Beta(order) == <<4, 10 * order>>

\* release_mean = data_dependent_eps + eps_release_rdp
ReleaseMean(eps, eps_release_rdp) == [eps |-> eps, plus |-> eps_release_rdp]

\* release_sdev = smooth_s * self.sigma_eps_release
ReleaseSdev(smooth_s, sigma) == [smooth_s |-> smooth_s, times |-> sigma]

ReleaseCall == [NoCall EXCEPT !.op = "release"]

release_epsilon_fixed_order ==
    /\ constructed
    /\ LET order == selected_order
           compute == NeedsRdpToDp(data_dependent_eps)
           found == rdp_to_dp(rdp_eps_by_order)
           eps1 == IF compute THEN Some(found[1]) ELSE data_dependent_eps
           sel1 == IF compute THEN Some(found[2]) ELSE selected_order
           arg == OrderArg(order, sel1)
           c0 == [ReleaseCall EXCEPT !.order_arg = arg]
           beta == Beta(Val(sel1))
           acc == LsByDistAcc(ProcessedRecords(votes_log), Val(arg))
           mean == ReleaseMean(Val(eps1),
                               rdp_eps_release(beta, sigma_eps_release, Val(arg)))
           sdev == ReleaseSdev(local_to_smooth_sens(beta, acc), sigma_eps_release)
       IN  /\ data_dependent_eps' = eps1
           /\ selected_order' = sel1
           /\ rdp_to_dp_calls' = IF compute THEN rdp_to_dp_calls + 1 ELSE rdp_to_dp_calls
           /\ IF votes_log = <<>>
              THEN call' = c0
              ELSE IF arg = None
              THEN call' = [c0 EXCEPT !.outcome = "error"]
              ELSE \E z \in NoiseSet(1) :
                      call' = [c0 EXCEPT !.outcome = "value", !.mean = mean,
                                         !.sdev = sdev,
                                         !.sample = <<mean, sdev, z>>]
    /\ UNCHANGED <<config, grid_pos, tally, rdp_eps_by_order, votes_log, queries>>

Next ==
    \/ \E votes \in VoteVectors, preds \in PredVectors : gn_max(votes, preds)
    \/ release_epsilon_fixed_order

Spec == Init /\ [][Next]_vars

\* ------------------------------------------------------ the grid, scanned
\* a fresh accountant for either preset of the grid
GridInit ==
    /\ short_list \in BOOLEAN
    /\ grid_pos = 1
    /\ Construct("basic", None, None, None)

\* the scan moves to the next order of self.orders
GridNext ==
    /\ grid_pos < Len(get_orders(short_list))
    /\ grid_pos' = grid_pos + 1
    /\ UNCHANGED <<config, tally, rdp_eps_by_order, votes_log, selected_order,
                   data_dependent_eps, rdp_to_dp_calls, queries, call>>

SpecGrid == GridInit /\ [][GridNext]_vars

\* ================================================================ claims
IsMode(m) == threshold_mode = Some(m)

\* the step is a gn_max call
GnMaxStep == call'.op = "gn_max" /\ queries' = queries + 1

\* C1: rdp_eps_by_order starts at zero at every order and no step decreases it
\* at any order.
C1_RdpNeverDecreases ==
    /\ rdp_eps_by_order = ZeroCost
    /\ [][\A o \in Orders : rdp_eps_by_order'[o] >= rdp_eps_by_order[o]]_vars

C1_Witness ==
    /\ call.op = "gn_max"
    /\ queries = 2
    /\ \A o \in Orders : rdp_eps_by_order[o] > 0

\* C2: every completed gn_max call appends exactly one record to the end of
\* votes_log and leaves the earlier records as they were; the record holds the
\* votes, the thresholded votes (votes - n_teachers * preds in interactive mode,
\* the votes themselves otherwise) and a released flag that is true exactly when
\* a teacher-consensus label is returned.
C2_OneRecordPerCall ==
    [][(GnMaxStep /\ call'.outcome # "error") =>
          votes_log' = Append(votes_log,
              <<call'.votes,
                IF IsMode(interactive_mode)
                THEN [i \in 1..Len(call'.votes) |->
                         call'.votes[i] - (n_teachers * call'.preds[i]) \div pred_unit]
                ELSE call'.votes,
                call'.outcome = "label">>)]_vars

C2_Witness ==
    /\ IsMode(interactive_mode)
    /\ call.op = "gn_max"
    /\ call.outcome = "student"
    /\ Len(votes_log) = 2
    /\ votes_log[1][3]
    /\ ~votes_log[2][3]
    /\ votes_log[2][2] # votes_log[2][1]

\* C3 (as stated): in basic mode every gn_max call returns a released consensus
\* label, invokes the release-cost function once and never the threshold-cost
\* function.
C3_BasicAlwaysReleases ==
    (IsMode(basic_mode) /\ call.op = "gn_max") =>
        /\ call.outcome = "label"
        /\ call.release_calls = 1
        /\ call.thresh_calls = 0

\* C4: in confident mode every gn_max call invokes the threshold-cost function
\* once; when the gate statistic max(votes) + noise is drawn, the call returns a
\* consensus label and invokes the release-cost function once iff the statistic
\* is >= threshold_T, and otherwise returns no answer and does not invoke it.
C4_ConfidentGate ==
    (IsMode(confident_mode) /\ call.op = "gn_max") =>
        /\ call.thresh_calls = 1
        /\ call.gate_drawn =>
              /\ \E gn \in NoiseSet(Val(sigma_thresh)) :
                    call.gate_stat = Max(call.votes) + gn
              /\ IF call.gate_stat >= Val(threshold_T)
                 THEN call.outcome = "label" /\ call.ret # None /\ call.release_calls = 1
                 ELSE call.outcome = "none" /\ call.ret = None /\ call.release_calls = 0
        /\ ~call.gate_drawn => call.outcome = "error" /\ call.release_calls = 0

C4_Witness ==
    /\ IsMode(confident_mode)
    /\ call.op = "gn_max"
    /\ call.outcome = "none"
    /\ call.gate_stat = Val(threshold_T) - 1
    /\ Len(votes_log) = 2
    /\ votes_log[1][3]

\* C5 (as stated): an interactive call that answers with the student's label
\* leaves rdp_eps_by_order as it was at every order.
C5_StudentAnswerCostsNothing ==
    [][(GnMaxStep /\ IsMode(interactive_mode) /\ call'.outcome = "student") =>
          rdp_eps_by_order' = rdp_eps_by_order]_vars

\* C5 (amended): an interactive call whose gate is not passed and whose
\* max(preds) exceeds threshold_gamma returns argmax(preds), does not invoke
\* the release-cost function, and changes rdp_eps_by_order by exactly the one
\* vector the threshold-cost function returned for that call.
C5_StudentAnswerCostsThresholdOnly ==
    [][(/\ GnMaxStep
        /\ IsMode(interactive_mode)
        /\ call'.gate_drawn
        /\ call'.gate_stat < Val(threshold_T)
        /\ threshold_gamma # None
        /\ Max(call'.preds) > Val(threshold_gamma))
       => /\ call'.outcome = "student"
          /\ call'.ret = Some(ArgMax(call'.preds))
          /\ call'.release_calls = 0
          /\ call'.thresh_calls = 1
          /\ \E tc \in CostVectors :
                \A o \in Orders : rdp_eps_by_order'[o] = rdp_eps_by_order[o] + tc[o]]_vars

C5_Witness ==
    /\ IsMode(interactive_mode)
    /\ call.op = "gn_max"
    /\ call.outcome = "student"
    /\ call.ret = Some(0)
    /\ queries = 1
    /\ rdp_eps_by_order # ZeroCost

\* C6: once data_dependent_eps is computed, no later step changes it or
\* selected_order or invokes rdp_to_dp again, whatever gn_max calls come in
\* between; rdp_to_dp is invoked at most once.
C6_CachedOnce ==
    [][/\ rdp_to_dp_calls' <= 1
       /\ data_dependent_eps # None =>
             /\ data_dependent_eps' = data_dependent_eps
             /\ selected_order' = selected_order
             /\ rdp_to_dp_calls' = rdp_to_dp_calls]_vars

C6_Witness ==
    /\ call.op = "release"
    /\ call.outcome = "value"
    /\ rdp_to_dp_calls = 1
    /\ <<Val(data_dependent_eps), Val(selected_order)>> # rdp_to_dp(rdp_eps_by_order)
    /\ Val(selected_order) # rdp_to_dp(rdp_eps_by_order)[2]

\* C7 (as stated): a release call on an empty votes_log ends in an error.
C7_EmptyLogIsAnError ==
    (call.op = "release" /\ votes_log = <<>>) => call.outcome = "error"

\* the configuration has every threshold parameter its mode needs
ConfigComplete ==
    /\ IsMode(confident_mode) => threshold_T # None /\ sigma_thresh # None
    /\ IsMode(interactive_mode) =>
          threshold_T # None /\ threshold_gamma # None /\ sigma_thresh # None

\* C8 (as stated): no instance on which gn_max is called lacks a threshold
\* parameter its mode needs.
C8_NoIncompleteInstance ==
    (constructed /\ call.op = "gn_max") => ConfigComplete

\* C9 (as stated): a gn_max call that fails leaves rdp_eps_by_order and
\* votes_log as they were before the call.
C9_FailedCallChangesNothing ==
    [][(GnMaxStep /\ call'.outcome = "error") =>
          /\ rdp_eps_by_order' = rdp_eps_by_order
          /\ votes_log' = votes_log]_vars

\* C10 (as stated): two release calls with no gn_max call in between, on a log
\* that holds a record, return the same release_mean and release_sdev.
C10_SameMeanAndSdev ==
    [][(call.op = "release" /\ call'.op = "release" /\ votes_log # <<>>) =>
          /\ call.outcome = "value"
          /\ call'.outcome = "value"
          /\ call'.mean = call.mean
          /\ call'.sdev = call.sdev]_vars

\* the grid under scan and the position where its linear part ends
ScannedGrid == get_orders(short_list)
JunctionPos == IF short_list THEN 49 ELSE 198

\* the bounds of the two presets: the short grid starts at 2 or above and ends
\* at 1000 or below, the full grid ends at 500 or below
GridWithinBounds ==
    /\ short_list => ScannedGrid[1] >= 2000 /\ ScannedGrid[Len(ScannedGrid)] <= 1000000
    /\ ~short_list => ScannedGrid[Len(ScannedGrid)] <= 500000

\* C11 (as stated): every element of either grid is strictly greater than the
\* one before it, the junction of the linear and the log-spaced part included,
\* and the grids lie within their bounds.
C11_StrictlyIncreasing ==
    /\ grid_pos < Len(ScannedGrid) => ScannedGrid[grid_pos] < ScannedGrid[grid_pos + 1]
    /\ GridWithinBounds

\* C11 (amended): either grid is strictly increasing inside its linear part
\* and inside its log-spaced part, but not across their junction, where the
\* short grid holds 50 twice and the full grid steps back from 100.5 to 100;
\* the grids lie within their bounds.
C11_IncreasingApartFromJunction ==
    /\ (grid_pos < Len(ScannedGrid) /\ grid_pos # JunctionPos) =>
          ScannedGrid[grid_pos] < ScannedGrid[grid_pos + 1]
    /\ grid_pos = JunctionPos =>
          /\ short_list => ScannedGrid[grid_pos] = 50000 /\ ScannedGrid[grid_pos + 1] = 50000
          /\ ~short_list => ScannedGrid[grid_pos] = 100500 /\ ScannedGrid[grid_pos + 1] = 100000
    /\ GridWithinBounds

C11_Witness ==
    /\ ~short_list
    /\ grid_pos = JunctionPos
    /\ ScannedGrid[grid_pos] > ScannedGrid[grid_pos + 1]
    /\ Len(ScannedGrid) = 298

\* C12: construction fails on a mode name other than 'basic', 'confident' and
\* 'interactive'; after a successful construction threshold_mode is the one of
\* the three modes that was named, and no gn_max or release call changes it.
C12_ModeFixedAtConstruction ==
    /\ [](/\ mode_name \notin {"basic", "confident", "interactive"} =>
                ~constructed /\ call.op = "init"
          /\ constructed =>
                /\ threshold_mode \in
                      {Some(basic_mode), Some(confident_mode), Some(interactive_mode)}
                /\ IsMode(basic_mode) <=> mode_name = "basic"
                /\ IsMode(confident_mode) <=> mode_name = "confident"
                /\ IsMode(interactive_mode) <=> mode_name = "interactive")
    /\ [][threshold_mode' = threshold_mode]_vars

C12_Witness ==
    /\ constructed
    /\ mode_name = "interactive"
    /\ IsMode(interactive_mode)
    /\ queries = 2
    /\ call.op = "release"

\* C13: an interactive gn_max call that reaches the gate thresholds
\* votes - n_teachers * preds, not the votes; it releases the consensus on the
\* original votes and charges the release cost on them if
\* max(votes - n_teachers * preds) + noise >= threshold_T; else it returns
\* argmax(preds) without a release cost if max(preds) > threshold_gamma; else
\* it returns no answer without a release cost.
C13_InteractiveOutcomes ==
    (IsMode(interactive_mode) /\ call.op = "gn_max" /\ call.gate_drawn) =>
        /\ call.thresh_calls = 1
        /\ call.thresh_vec = [i \in 1..Len(call.votes) |->
                                 call.votes[i] - (n_teachers * call.preds[i]) \div pred_unit]
        /\ \E gn \in NoiseSet(Val(sigma_thresh)) :
              call.gate_stat = Max(call.thresh_vec) + gn
        /\ IF call.gate_stat >= Val(threshold_T)
           THEN /\ call.outcome = "label"
                /\ call.release_calls = 1
                /\ call.release_vec = call.votes
           ELSE /\ call.release_calls = 0
                /\ call.release_vec = <<>>
                /\ IF threshold_gamma = None
                   THEN call.outcome = "error"
                   ELSE IF Max(call.preds) > Val(threshold_gamma)
                   THEN call.outcome = "student" /\ call.ret = Some(ArgMax(call.preds))
                   ELSE call.outcome = "none" /\ call.ret = None

C13_Witness ==
    /\ IsMode(interactive_mode)
    /\ call.op = "gn_max"
    /\ call.outcome = "none"
    /\ call.thresh_vec # call.votes
    /\ Max(call.preds) = Val(threshold_gamma)
    /\ Len(votes_log) = 2
    /\ votes_log[1][3]
\* the step is a call of release_epsilon_fixed_order
ReleaseStep == call'.op = "release" /\ queries' = queries /\ constructed

\* the call returned (release_mean, release_sdev, release_sample)
ReleaseReturned == call.op = "release" /\ call.outcome = "value"

\* C14 (as stated): in every release call that walks a record, the order handed
\* to local_sensitivity and rdp_eps_release is the selected_order that
\* rdp_to_dp returned and that is cached; it is never unset.
C14_OrderIsSelectedOrder ==
    (call.op = "release" /\ votes_log # <<>>) =>
        /\ call.order_arg # None
        /\ call.order_arg = selected_order

C16_RecordContributions ==
    ReleaseReturned =>
        LET rec == votes_log[1]
            o == Val(call.order_arg)
            beta == <<4, 10 * Val(selected_order)>>
            thr == [vec |-> rec[2], n |-> n_teachers, sigma |-> sigma_thresh,
                    order |-> o, threshold |-> threshold_T]
            rel == [vec |-> rec[1], n |-> n_teachers, sigma |-> Some(sigma_votes),
                    order |-> o, threshold |-> None]
            acc == (IF IsMode(basic_mode) THEN <<>> ELSE <<thr>>)
                   \o (IF rec[3] THEN <<rel>> ELSE <<>>)
        IN  /\ call.sdev = [smooth_s |-> [beta |-> beta, ls |-> acc],
                            times |-> sigma_eps_release]
            /\ call.mean = [eps |-> Val(data_dependent_eps),
                            plus |-> [beta |-> beta, sigma |-> sigma_eps_release,
                                      order |-> o]]
            /\ \E z \in {-1, 0, 1} : call.sample = <<call.mean, call.sdev, z>>

C16_Witness ==
    /\ ReleaseReturned
    /\ IsMode(confident_mode)
    /\ votes_log[1][3]
    /\ Len(call.sdev.smooth_s.ls) = 2
    /\ call.sdev.smooth_s.ls[1].sigma = sigma_thresh
    /\ call.sdev.smooth_s.ls[2].sigma = Some(sigma_votes)

\* C17: a release call (with the _data_dependent_rdp call inside it) leaves
\* rdp_eps_by_order and votes_log as they were, and a gn_max call changes
\* rdp_eps_by_order by adding one cost vector for each threshold cost and each
\* release cost it charged, and in no other way.
C17_RdpChangesByCostAdditionOnly ==
    [][/\ ReleaseStep =>
              /\ rdp_eps_by_order' = rdp_eps_by_order
              /\ votes_log' = votes_log
       /\ GnMaxStep =>
              \E tc, rc \in CostVectors :
                 \A o \in Orders :
                    rdp_eps_by_order'[o] = rdp_eps_by_order[o]
                        + (IF call'.thresh_calls = 1 THEN tc[o] ELSE 0)
                        + (IF call'.release_calls = 1 THEN rc[o] ELSE 0)]_vars

C17_Witness ==
    /\ ReleaseReturned
    /\ rdp_to_dp_calls = 1
    /\ queries = 2
    /\ \A o \in Orders : rdp_eps_by_order[o] = 2 * o

\* C18 (as stated): whenever gn_max releases a consensus label, the noise added
\* to the votes before the argmax has the standard deviation that is passed to
\* the release-cost function, sigma_votes.
C18_PerturbedAsCharged ==
    (call.op = "gn_max" /\ call.release_calls = 1) =>
        /\ call.charged_sigma = Some(sigma_votes)
        /\ call.perturb_sigma = call.charged_sigma

\* the number of records of the log whose released flag is true
RECURSIVE ReleasedRecords(_)
ReleasedRecords(log) ==
    IF log = <<>> THEN 0
    ELSE (IF Head(log)[3] THEN 1 ELSE 0) + ReleasedRecords(Tail(log))

\* C19: when every gn_max call made so far has completed, the number of
\* release costs added to rdp_eps_by_order is the number of records of
\* votes_log whose released flag is true, and the number of threshold costs
\* added is the length of votes_log in confident and interactive mode and zero
\* in basic mode.
C19_LogMatchesCharges ==
    (constructed /\ tally.completed = queries) =>
        /\ tally.release_added = ReleasedRecords(votes_log)
        /\ tally.thresh_added = (IF IsMode(basic_mode) THEN 0 ELSE Len(votes_log))

C19_Witness ==
    /\ IsMode(interactive_mode)
    /\ tally.completed = 2
    /\ queries = 2
    /\ tally.release_added = 1
    /\ tally.thresh_added = 2
    /\ ~votes_log[2][3]

\* C20 (as stated): a release call on an empty votes_log leaves the state as it
\* was, so selected_order and data_dependent_eps are unset for as long as the
\* log is empty.
C20_EmptyLogLeavesStateUnset ==
    votes_log = <<>> =>
        /\ data_dependent_eps = None
        /\ selected_order = None

====
